---- MODULE Spec2Model ----
(***************************************************************************)
(* A model of three parts of fastface:                                     *)
(*   - LFFDTinyPart (models/lffd/tiny.py): construction, forward and       *)
(*     training_step with its hard-negative mining and loss assertion;     *)
(*   - BaseDataset.__getitem__ (fastface/dataset/base.py);                 *)
(*   - the cache path helpers (mypackage/utils/cache.py).                  *)
(* Each part has its own specification (SpecTrain, SpecData, SpecCache)    *)
(* over the variables it uses; the other variables stay as Init left them. *)
(***************************************************************************)
EXTENDS Integers, Sequences, FiniteSets, TLC

\* ------------------------------------------------------------- bounds
MaxHeads == 3       \* configuration lists of length 1..MaxHeads
MaxBatch == 3       \* examples in a batch
MaxH     == 2       \* rows of a head's output grid
MaxW     == 2       \* columns of a head's output grid
MaxLocs  == 12      \* flattened locations of a batch (all examples, all heads)
MaxPos   == 1       \* non-ignored locations labelled 1 in a batch
MaxIgn   == 1       \* ignored locations in a batch
MaxItems == 2       \* len(self.ids) of a dataset
MaxBoxes == 1       \* boxes in an annotation at construction

\* ------------------------------------------------- program constants
ratio == 10             \* tiny.py:77
NumFeatureMaps == 2     \* tiny.py:55 and tiny.py:58: forward appends c8 and c10

None == "None"
NaN == "NaN"
Finite == "finite"

Min(a, b) == IF a <= b THEN a ELSE b

\* All subsets of S with at most m elements.
RECURSIVE UpTo(_, _)
UpTo(S, m) ==
    IF m = 0 THEN {{}}
    ELSE LET prev == UpTo(S, m - 1)
         IN  prev \cup {A \cup {x} : A \in prev, x \in S}

KSubsets(S, k) == {A \in UpTo(S, k) : Cardinality(A) = k}

VARIABLES
    \* LFFDTinyPart
    heads,          \* len(self.heads)
    result,         \* "constructed", "batch" (a batch is at hand), "forward_returned",
                    \* "returned", or the exception the call raised
    imgs,           \* the input of the call: [bs, fh, fw] (batch size, feature-map grid)
    gt_boxes,       \* the call's ground truth, as the assignment it induces
    fwd,            \* what the last call of forward returned
    built,          \* what build_targets returned, per head
    lists,          \* the five per-head lists when the loop over the heads ends
    cls_logits, reg_logits, target_cls, target_regs, ignore,   \* after the concatenation
    pos_mask,       \* tiny.py:111
    neg_orig,       \* neg_mask as computed at tiny.py:112, before the mining
    ss,             \* the sampled flat indices, tiny.py:119
    neg_mask,       \* neg_mask after tiny.py:123
    cls_mask,       \* pos_mask | neg_mask, tiny.py:127
    cls_sel, reg_sel,   \* the logits handed to the two losses
    cls_loss, reg_loss, loss,
    \* BaseDataset
    targets,        \* self.targets: a list of references to dicts
    heap_dicts,     \* the dict objects: reference -> [boxes |-> reference to a list]
    heap_lists,     \* the list objects: reference -> sequence of values
    item,           \* the targets reference the last __getitem__ returned (0: none)
    data_result,    \* "idle", "returned" or "raised"
    last_call,      \* the last call: [idx, tr]
    loaded,         \* the annotations as they were at construction
    mutated,        \* the indices whose call ran a transform that mutates its argument
    \* cache paths
    fs,             \* the file system: path -> what is there
    fs_pre,         \* the file system when the last call started
    cache_last      \* the last call: [fn, outcome, path, err]

trainVars == <<heads, result, imgs, gt_boxes, fwd, built, lists, cls_logits, reg_logits,
               target_cls, target_regs, ignore, pos_mask, neg_orig, ss, neg_mask, cls_mask, cls_sel, reg_sel,
               cls_loss, reg_loss, loss>>

stepLocals == <<built, lists, cls_logits, reg_logits, target_cls, target_regs, ignore, pos_mask,
                neg_orig, ss, neg_mask, cls_mask, cls_sel, reg_sel, cls_loss, reg_loss, loss>>

dataVars == <<targets, heap_dicts, heap_lists, item, data_result, last_call,
              loaded, mutated>>

cacheVars == <<fs, fs_pre, cache_last>>

vars == <<trainVars, dataVars, cacheVars>>

\* ============================================================ tensors
\* A per-head tensor of shape (bs, fh, fw) is a function t[b][r][c] with 0-based
\* indices as in the code; a flattened tensor of shape (bs, L) is a function from
\* 0..bs-1 to sequences, the flat location j (0-based) being element j+1.

Batch(x) == 0 .. (x.bs - 1)
Rows(x)  == 0 .. (x.fh - 1)
Cols(x)  == 0 .. (x.fw - 1)

\* The backbone's two feature maps c8 and c10. The residual blocks add their input
\* to their output, so both maps have the grid of c2.
Backbone(x) == [i \in 1 .. NumFeatureMaps |-> [level |-> i, bs |-> x.bs, fh |-> x.fh, fw |-> x.fw]]

\* DetectionHead i applied to a feature map: one prediction per location, the
\* output grid being the input grid. A logit is modelled by where it comes from.
HeadForward(i, fmap, branch) ==
    [b \in Batch(fmap) |-> [r \in Rows(fmap) |-> [c \in Cols(fmap) |->
        [branch |-> branch, head |-> i, level |-> fmap.level, b |-> b, r |-> r, c |-> c]]]]

\* forward's loop, tiny.py:63-66: heads[i] for every feature map i.
ForwardRaises(nheads) == nheads < NumFeatureMaps

\* len(cls_logits) of forward's return value: one output per feature map.
NumOutputs(x) == Len(Backbone(x))

forward(x) ==
    LET logits == Backbone(x)
    IN  [cls |-> [i \in 1 .. Len(logits) |-> HeadForward(i, logits[i], "cls")],
         reg |-> [i \in 1 .. Len(logits) |-> HeadForward(i, logits[i], "reg")]]

\* heads[i].build_targets((fh, fw), gt_boxes): the labels, regression targets and
\* ignore flags of head i. gt is the assignment the boxes induce: the non-ignored
\* positive locations, the ignored locations, and the ignored ones labelled 1.
build_targets(i, x, gt) ==
    [t_cls |-> [b \in Batch(x) |-> [r \in Rows(x) |-> [c \in Cols(x) |->
                    IF <<i, b, r, c>> \in gt.pos \cup gt.ign1 THEN 1 ELSE 0]]],
     t_regs |-> [b \in Batch(x) |-> [r \in Rows(x) |-> [c \in Cols(x) |-> <<i, b, r, c>>]]],
     ig |-> [b \in Batch(x) |-> [r \in Rows(x) |-> [c \in Cols(x) |-> <<i, b, r, c>> \in gt.ign]]]]

\* t.permute(0,2,3,1).view(batch_size, -1) and t.view(batch_size, -1): row-major
\* over the grid.
Flatten(t, x) ==
    [b \in Batch(x) |-> [k \in 1 .. (x.fh * x.fw) |-> t[b][(k - 1) \div x.fw][(k - 1) % x.fw]]]

\* torch.cat(ts, dim=1) of flattened tensors, in list order.
RECURSIVE CatRow(_, _, _)
CatRow(ts, b, n) == IF n = 0 THEN <<>> ELSE CatRow(ts, b, n - 1) \o ts[n][b]

Cat(ts, x) == [b \in Batch(x) |-> CatRow(ts, b, Len(ts))]

\* The targets concatenated in the reverse head order.
TargetCatReversed(ts, x) == Cat([i \in 1 .. Len(ts) |-> ts[Len(ts) + 1 - i]], x)

\* torch.cat of the target lists, tiny.py:107-109.
TargetCat(ts, x) == Cat(ts, x)

RowLen(t) == Len(t[0])

\* ============================================================== masks
\* The masks without the ignore flags.
PosMaskNoIgnore(t_cls, ig) == [b \in DOMAIN t_cls |-> [k \in DOMAIN t_cls[b] |-> t_cls[b][k] = 1]]

NegMaskNoIgnore(t_cls, ig) == [b \in DOMAIN t_cls |-> [k \in DOMAIN t_cls[b] |-> t_cls[b][k] = 0]]

PosMask(t_cls, ig) == [b \in DOMAIN t_cls |-> [k \in DOMAIN t_cls[b] |-> (t_cls[b][k] = 1) /\ ~ig[b][k]]]

NegMask(t_cls, ig) == [b \in DOMAIN t_cls |-> [k \in DOMAIN t_cls[b] |-> (t_cls[b][k] = 0) /\ ~ig[b][k]]]

\* mask.sum()
TrueAt(mask) == {p \in (DOMAIN mask) \X (1 .. RowLen(mask)) : mask[p[1]][p[2]]}

Count(mask) == Cardinality(TrueAt(mask))

\* torch.where(mask.view(-1)): the flat indices, 0-based, over the whole batch.
Where(mask) == {p[1] * RowLen(mask) + (p[2] - 1) : p \in TrueAt(mask)}

\* The cap computed as ratio + positives.
NegTargetSum(negatives, positives) == Min(negatives, ratio + positives)

\* negatives = min(negatives, ratio*positives), tiny.py:116
NegTarget(negatives, positives) == Min(negatives, ratio * positives)

\* random_sample_selection(population, select_n): select_n distinct elements of
\* the population, every choice possible.
random_sample_selection(population, select_n) ==
    LET n == Cardinality(population)
    IN  IF 2 * select_n <= n
        THEN KSubsets(population, select_n)
        ELSE {population \ D : D \in KSubsets(population, n - select_n)}

\* The rebuild without neg_mask[:] = False.
RebuildNoClear(mask, sample) ==
    [b \in DOMAIN mask |-> [k \in DOMAIN mask[b] |->
        mask[b][k] \/ (b * RowLen(mask) + (k - 1)) \in sample]]

\* tiny.py:120-123: clear the mask, set the sampled flat indices, view as (bs, -1).
Rebuild(mask, sample) ==
    [b \in DOMAIN mask |-> [k \in DOMAIN mask[b] |-> (b * RowLen(mask) + (k - 1)) \in sample]]

Or(m1, m2) == [b \in DOMAIN m1 |-> [k \in DOMAIN m1[b] |-> m1[b][k] \/ m2[b][k]]]

\* t[mask]: the selected elements in flat order.
RECURSIVE SelectFrom(_, _, _)
SelectFrom(t, mask, f) ==
    LET L == RowLen(mask)
        n == Cardinality(DOMAIN mask) * L
    IN  IF f >= n THEN <<>>
        ELSE LET b == f \div L
                 k == (f % L) + 1
             IN  (IF mask[b][k] THEN <<t[b][k]>> ELSE <<>>) \o SelectFrom(t, mask, f + 1)

Select(t, mask) == SelectFrom(t, mask, 0)

\* ============================================================= losses
\* Both losses reduce by the mean: over an empty selection that is 0/0. The
\* logits and targets themselves are finite.
binary_cross_entropy_with_logits(input, target) == IF Len(input) = 0 THEN NaN ELSE Finite

mse_loss(input, target) == IF Len(input) = 0 THEN NaN ELSE Finite

isnan(v) == v = NaN

Add(a, b) == IF isnan(a) \/ isnan(b) THEN NaN ELSE Finite

\* The assertion compiled away.
AssertDisabled(cl, rl) == TRUE

\* assert not torch.isnan(reg_loss) and not torch.isnan(cls_loss), tiny.py:131
AssertPasses(cl, rl) == ~isnan(rl) /\ ~isnan(cl)

\* ============================================================ actions
Locs(x) == (1 .. NumFeatureMaps) \X Batch(x) \X Rows(x) \X Cols(x)

Inputs == {x \in [bs : 1 .. MaxBatch, fh : 1 .. MaxH, fw : 1 .. MaxW] :
              x.bs * NumFeatureMaps * x.fh * x.fw <= MaxLocs}

NoLocals ==
    /\ built = None /\ lists = None /\ cls_logits = None /\ reg_logits = None /\ target_cls = None /\ target_regs = None
    /\ ignore = None /\ pos_mask = None /\ neg_orig = None /\ ss = None /\ neg_mask = None
    /\ cls_mask = None /\ cls_sel = None /\ reg_sel = None /\ cls_loss = None /\ reg_loss = None /\ loss = None

\* No detector in use.
IdleTrain ==
    /\ heads = 0
    /\ result = "none"
    /\ imgs = None /\ gt_boxes = None /\ fwd = None
    /\ NoLocals

\* The data loader hands the model a batch (imgs, gt_boxes).
NextBatch ==
    /\ result = "constructed"
    /\ \E x \in Inputs :
       \E P \in UpTo(Locs(x), MaxPos) :
       \E I \in UpTo(Locs(x) \ P, MaxIgn) :
       \E J \in SUBSET I :
            /\ imgs' = x
            /\ gt_boxes' = [pos |-> P, ign |-> I, ign1 |-> J]
    /\ result' = "batch"
    /\ UNCHANGED <<heads, fwd, stepLocals>>
    /\ UNCHANGED <<dataVars, cacheVars>>

\* A direct call of forward(x).
Forward ==
    /\ result = "constructed"
    /\ \E x \in Inputs :
        /\ imgs' = x
        /\ \/ /\ ForwardRaises(heads)
              /\ result' = "IndexError"
              /\ fwd' = fwd
           \/ /\ ~ForwardRaises(heads)
              /\ result' = "forward_returned"
              /\ fwd' = forward(x)
    /\ UNCHANGED <<heads, gt_boxes, stepLocals>>
    /\ UNCHANGED <<dataVars, cacheVars>>

\* training_step from the loop over the heads to the return, tiny.py:88-133. Each
\* line reads the values the lines before it assigned.
StepBody(x, gt) ==
    LET hs == 1 .. heads
    IN  /\ built' = [i \in hs |-> build_targets(i, x, gt)]
        /\ lists' = [cls |-> [i \in hs |-> Flatten(fwd'.cls[i], x)],
                     reg |-> [i \in hs |-> Flatten(fwd'.reg[i], x)],
                     target_cls |-> [i \in hs |-> Flatten(built'[i].t_cls, x)],
                     target_regs |-> [i \in hs |-> Flatten(built'[i].t_regs, x)],
                     ignore |-> [i \in hs |-> Flatten(built'[i].ig, x)]]
        /\ cls_logits' = Cat(lists'.cls, x)
        /\ reg_logits' = Cat(lists'.reg, x)
        /\ target_cls' = TargetCat(lists'.target_cls, x)
        /\ target_regs' = TargetCat(lists'.target_regs, x)
        /\ ignore' = TargetCat(lists'.ignore, x)
        /\ pos_mask' = PosMask(target_cls', ignore')
        /\ neg_orig' = NegMask(target_cls', ignore')
        /\ ss' \in random_sample_selection(Where(neg_orig'),
                                         NegTarget(Count(neg_orig'), Count(pos_mask')))
        /\ neg_mask' = Rebuild(neg_orig', ss')
        /\ cls_mask' = Or(pos_mask', neg_mask')
        /\ cls_sel' = Select(cls_logits', cls_mask')
        /\ reg_sel' = Select(reg_logits', pos_mask')
        /\ cls_loss' = binary_cross_entropy_with_logits(cls_sel', Select(target_cls', cls_mask'))
        /\ reg_loss' = mse_loss(reg_sel', Select(target_regs', pos_mask'))
        /\ IF AssertPasses(cls_loss', reg_loss')
           THEN result' = "returned" /\ loss' = Add(cls_loss', reg_loss')
           ELSE result' = "AssertionError" /\ loss' = loss

\* training_step((imgs, gt_boxes), batch_idx)
training_step ==
    /\ result = "batch"
    /\ \/ \* self(imgs) raises: heads[i] with i >= len(self.heads), tiny.py:64
          /\ ForwardRaises(heads)
          /\ result' = "IndexError"
          /\ UNCHANGED <<fwd, stepLocals>>
       \/ \* self(imgs) returns; cls_logits[i] raises for i >= len(cls_logits), tiny.py:90
          /\ ~ForwardRaises(heads)
          /\ heads > NumOutputs(imgs)
          /\ result' = "IndexError"
          /\ UNCHANGED <<fwd, stepLocals>>
       \/ /\ ~ForwardRaises(heads)
          /\ heads <= NumOutputs(imgs)
          /\ fwd' = forward(imgs)
          /\ StepBody(imgs, gt_boxes)
    /\ UNCHANGED <<heads, imgs, gt_boxes>>
    /\ UNCHANGED <<dataVars, cacheVars>>

NextTrain == NextBatch \/ Forward \/ training_step

\* ======================================================== BaseDataset
Vals == {0, 1}

BoxLists == UNION {[1 .. n -> Vals] : n \in 0 .. MaxBoxes}

\* Objects are referred to by positive numbers; a fresh reference is the least
\* one not in use.
LeastFree(S) == CHOOSE m \in 1 .. (Cardinality(S) + 1) : m \notin S /\ \A n \in 1 .. (m - 1) : n \in S

Fresh(hd, hl) == LeastFree(DOMAIN hd \cup DOMAIN hl)

\* copy.copy(d): a new dict that shares the list.
ShallowCopy(hd, hl, d) ==
    LET n == Fresh(hd, hl)
    IN  [hd |-> hd @@ (n :> hd[d]), hl |-> hl, ref |-> n]

\* copy.deepcopy(self.targets[idx]), base.py:37: a new dict holding a new list.
deepcopy(hd, hl, d) ==
    LET n == Fresh(hd, hl)
        m == LeastFree(DOMAIN hd \cup DOMAIN hl \cup {n})
    IN  [hd |-> hd @@ (m :> [boxes |-> n]),
         hl |-> hl @@ (n :> hl[hd[d].boxes]),
         ref |-> m]

TransformNames == {"identity", "append", "setitem", "rebind"}

Mutating == TransformNames \ {"identity"}

\* self.transforms(img, targets), base.py:40: what a transform may do to the dict
\* it is handed, and the targets it returns (the same dict).
transforms(tr, v, hd, hl, d) ==
    LET l == hd[d].boxes
    IN  CASE tr = "identity" -> [hd |-> hd, hl |-> hl, ref |-> d]
          [] tr = "append"   -> [hd |-> hd, hl |-> [hl EXCEPT ![l] = Append(@, v)], ref |-> d]
          [] tr = "setitem"  -> [hd |-> hd,
                                 hl |-> [hl EXCEPT ![l] = IF Len(@) = 0 THEN @ ELSE [@ EXCEPT ![1] = v]],
                                 ref |-> d]
          [] tr = "rebind"   -> LET n == Fresh(hd, hl)
                                IN  [hd |-> [hd EXCEPT ![d] = [boxes |-> n]],
                                     hl |-> hl @@ (n :> <<v>>),
                                     ref |-> d]

\* The objects the dataset and the caller's item still refer to.
LiveDicts(hd, ts, it) == {ts[i] : i \in 1 .. Len(ts)} \cup (IF it = 0 THEN {} ELSE {it})

Collect(hd, hl, ts, it) ==
    LET ds == LiveDicts(hd, ts, it)
        ls == {hd[d].boxes : d \in ds}
    IN  [hd |-> [d \in ds |-> hd[d]], hl |-> [l \in ls |-> hl[l]]]

\* The annotations the dataset holds, by value.
Stored == [i \in 1 .. Len(targets) |-> heap_lists[heap_dicts[targets[i]].boxes]]

\* No dataset in use.
IdleData ==
    /\ targets = <<>> /\ loaded = <<>>
    /\ heap_dicts = <<>> /\ heap_lists = <<>>
    /\ item = 0
    /\ data_result = "none"
    /\ last_call = [idx |-> 0, tr |-> "none"]
    /\ mutated = {}

\* __getitem__(idx), base.py:35-42, with the transform tr. The caller keeps only
\* the item of its latest call.
getitem ==
    /\ data_result # "none"
    /\ \E idx \in 0 .. (Len(targets) - 1) :
        \/ \* _load_image raises: the file is missing or cannot be decoded
           /\ data_result' = "raised"
           /\ last_call' = [idx |-> idx, tr |-> "none"]
           /\ UNCHANGED <<targets, heap_dicts, heap_lists, item, loaded, mutated>>
        \/ \E tr \in TransformNames, v \in Vals :
           \E dropped \in {Collect(heap_dicts, heap_lists, targets, 0)} :
           \E copied \in {deepcopy(dropped.hd, dropped.hl, targets[idx + 1])} :
           \E out \in {transforms(tr, v, copied.hd, copied.hl, copied.ref)} :
           \E kept \in {Collect(out.hd, out.hl, targets, out.ref)} :
                /\ item' = out.ref
                /\ heap_dicts' = kept.hd
                /\ heap_lists' = kept.hl
                /\ data_result' = "returned"
                /\ last_call' = [idx |-> idx, tr |-> tr]
                /\ mutated' = IF tr \in Mutating THEN mutated \cup {idx} ELSE mutated
                /\ UNCHANGED <<targets, loaded>>
    /\ UNCHANGED <<trainVars, cacheVars>>

NextData == getitem

\* ======================================================== cache paths
\* ~, ~/.cache, ~/.cache/mypackage, and its models and data directories.
Paths == {"home", "cache", "base", "models", "data"}

Parent(p) ==
    CASE p = "home" -> "root"
      [] p = "cache" -> "home"
      [] p = "base" -> "cache"
      [] p = "models" -> "base"
      [] p = "data" -> "base"

RECURSIVE Ancestors(_)
Ancestors(p) == IF p = "root" THEN {} ELSE {Parent(p)} \cup Ancestors(Parent(p))

\* What a path names: nothing, a regular file, a directory, a directory in which
\* the process may not create entries, or a symbolic link to nothing.
Kinds == {"absent", "file", "dir", "rodir", "dangling"}

isfile(f, p) == f[p] = "file"
isdir(f, p) == f[p] \in {"dir", "rodir"}
exists(f, p) == f[p] \in {"file", "dir", "rodir"}

FileSystems ==
    {f \in [Paths \cup {"root"} -> Kinds] :
        /\ f["root"] \in {"dir", "rodir"}
        /\ \A p \in Paths : f[p] # "absent" => isdir(f, Parent(p))}

\* os.mkdir(p)
mkdir(f, p) ==
    CASE f[Parent(p)] \in {"absent", "dangling"} -> [fs |-> f, err |-> "FileNotFoundError"]
      [] f[Parent(p)] = "file" -> [fs |-> f, err |-> "NotADirectoryError"]
      [] isdir(f, Parent(p)) /\ f[p] # "absent" -> [fs |-> f, err |-> "FileExistsError"]
      [] f[Parent(p)] = "rodir" /\ f[p] = "absent" -> [fs |-> f, err |-> "PermissionError"]
      [] f[Parent(p)] = "dir" /\ f[p] = "absent" -> [fs |-> [f EXCEPT ![p] = "dir"], err |-> "ok"]

\* os.makedirs(p, exist_ok=True), cache.py:10: the missing parents first, a
\* FileExistsError of theirs ignored; then the leaf, whose error is ignored when
\* the leaf is a directory.
RECURSIVE makedirs(_, _)
makedirs(f, p) ==
    LET up == IF ~exists(f, Parent(p)) THEN makedirs(f, Parent(p)) ELSE [fs |-> f, err |-> "ok"]
    IN  IF up.err \notin {"ok", "FileExistsError"} THEN up
        ELSE LET made == mkdir(up.fs, p)
             IN  IF made.err # "ok" /\ isdir(up.fs, p) THEN [fs |-> up.fs, err |-> "ok"] ELSE made

\* The wrapper without its makedirs call.
EnsurePathNoCreate(f, p) == [fs |-> f, outcome |-> "returned", path |-> p, err |-> "ok"]

\* ensure_path's more_fun once fun has returned p, cache.py:8-11.
ensure_path(f, p) ==
    IF isfile(f, p) THEN [fs |-> f, outcome |-> "returned", path |-> p, err |-> "ok"]
    ELSE IF ~exists(f, p)
         THEN LET made == makedirs(f, p)
              IN  IF made.err = "ok"
                  THEN [fs |-> made.fs, outcome |-> "returned", path |-> p, err |-> "ok"]
                  ELSE [fs |-> made.fs, outcome |-> "raised", path |-> p, err |-> made.err]
         ELSE [fs |-> f, outcome |-> "returned", path |-> p, err |-> "ok"]

\* get_cache_path(), cache.py:14-16
get_cache_path(f) == ensure_path(f, "base")

\* get_model_cache_path() and get_data_cache_path(), cache.py:18-24: the path is
\* joined to what get_cache_path() returns.
SubPath(f, leaf) ==
    LET b == get_cache_path(f)
    IN  IF b.outcome = "raised" THEN b ELSE ensure_path(b.fs, leaf)

get_model_cache_path(f) == SubPath(f, "models")

get_data_cache_path(f) == SubPath(f, "data")

CallOf(fn, f) ==
    CASE fn = "get_cache_path" -> get_cache_path(f)
      [] fn = "get_model_cache_path" -> get_model_cache_path(f)
      [] fn = "get_data_cache_path" -> get_data_cache_path(f)

PathOf(fn) ==
    CASE fn = "get_cache_path" -> "base"
      [] fn = "get_model_cache_path" -> "models"
      [] fn = "get_data_cache_path" -> "data"

NoCall == [fn |-> "none", outcome |-> "none", path |-> "none", err |-> "none"]

\* No file system in use.
IdleCache ==
    /\ fs = [p \in Paths \cup {"root"} |-> "dir"]
    /\ fs_pre = fs
    /\ cache_last = [NoCall EXCEPT !.fn = "unused"]

Called(fn, r) ==
    /\ cache_last.fn # "unused"
    /\ fs_pre' = fs
    /\ fs' = r.fs
    /\ cache_last' = [fn |-> fn, outcome |-> r.outcome, path |-> r.path, err |-> r.err]
    /\ UNCHANGED <<trainVars, dataVars>>

GetCachePath == \E r \in {get_cache_path(fs)} : Called("get_cache_path", r)

GetModelCachePath == \E r \in {get_model_cache_path(fs)} : Called("get_model_cache_path", r)

GetDataCachePath == \E r \in {get_data_cache_path(fs)} : Called("get_data_cache_path", r)

NextCache == GetCachePath \/ GetModelCachePath \/ GetDataCachePath

\* ===================================================== specifications
\* LFFDTinyPart(filters, rf_sizes, rf_strides, scales) with lists of length k.
InitTrain ==
    /\ heads \in 1 .. MaxHeads
    /\ result = "constructed"
    /\ imgs = None /\ gt_boxes = None /\ fwd = None
    /\ NoLocals
    /\ IdleData /\ IdleCache

\* BaseDataset(ids, targets): len(ids) = len(targets), one dict per index.
InitData ==
    /\ \E n \in 1 .. MaxItems :
        \E content \in [1 .. n -> BoxLists] :
            /\ targets = [i \in 1 .. n |-> 2 * i - 1]
            /\ heap_dicts = [d \in {2 * i - 1 : i \in 1 .. n} |-> [boxes |-> d + 1]]
            /\ heap_lists = [l \in {2 * i : i \in 1 .. n} |-> content[l \div 2]]
            /\ loaded = content
    /\ item = 0
    /\ data_result = "idle"
    /\ last_call = [idx |-> 0, tr |-> "none"]
    /\ mutated = {}
    /\ IdleTrain /\ IdleCache

\* Any file system the process may start in.
InitCache ==
    /\ fs \in FileSystems
    /\ fs_pre = fs
    /\ cache_last = NoCall
    /\ IdleTrain /\ IdleData

SpecTrain == InitTrain /\ [][NextTrain]_vars

SpecData == InitData /\ [][NextData]_vars

SpecCache == InitCache /\ [][NextCache]_vars

\* =================================================== LFFDTinyPart claims
\* training_step got as far as the mining and the losses.
Mined == result \in {"returned", "AssertionError"}

Flat(x) == Batch(x) \X (1 .. (NumFeatureMaps * x.fh * x.fw))

\* C1: after the mining the negatives, counted over the whole batch, are at most
\* ratio times the positives and at most the original negatives, and are exactly
\* the smaller of the two.
C1_NegativeCap ==
    Mined =>
        /\ Count(neg_mask) <= ratio * Count(pos_mask)
        /\ Count(neg_mask) <= Count(neg_orig)
        /\ Count(neg_mask) = Min(Count(neg_orig), ratio * Count(pos_mask))

\* The cap binds: more negatives than ratio times the positives, over several examples.
C1_Witness ==
    /\ Mined
    /\ imgs.bs > 1
    /\ Count(pos_mask) >= 1
    /\ Count(neg_orig) > ratio * Count(pos_mask)
    /\ Count(neg_mask) = ratio * Count(pos_mask)

\* C2: a batch without positives mines no negatives and training_step returns.
C2_ZeroPositivesReturns ==
    (Mined /\ Count(pos_mask) = 0) => (Count(neg_mask) = 0 /\ result = "returned")

\* C3: with labels in {0, 1}, every location is in exactly one of pos_mask, the
\* negative mask before the mining and the ignore mask.
C3_MasksPartition ==
    Mined =>
        \A p \in Flat(imgs) :
            LET b == p[1]
                k == p[2]
            IN  target_cls[b][k] \in {0, 1} =>
                    /\ ~(pos_mask[b][k] /\ neg_orig[b][k])
                    /\ ~(pos_mask[b][k] /\ ignore[b][k])
                    /\ ~(neg_orig[b][k] /\ ignore[b][k])
                    /\ (pos_mask[b][k] \/ neg_orig[b][k] \/ ignore[b][k])

\* A batch with a positive, a negative and an ignored location labelled 1.
C3_Witness ==
    /\ Mined
    /\ Count(pos_mask) >= 1
    /\ Count(neg_orig) >= 1
    /\ \E p \in Flat(imgs) : ignore[p[1]][p[2]] /\ target_cls[p[1]][p[2]] = 1

\* C4: an ignored location is in neither loss, whatever its label and whatever
\* the sampling picks.
C4_IgnoredNeverSelected ==
    Mined =>
        /\ \A p \in Flat(imgs) :
                ignore[p[1]][p[2]] =>
                    /\ ~pos_mask[p[1]][p[2]]
                    /\ ~neg_mask[p[1]][p[2]]
                    /\ ~cls_mask[p[1]][p[2]]
        /\ \A n \in 1 .. Len(cls_sel) :
                <<cls_sel[n].head, cls_sel[n].b, cls_sel[n].r, cls_sel[n].c>> \notin gt_boxes.ign
        /\ \A n \in 1 .. Len(reg_sel) :
                <<reg_sel[n].head, reg_sel[n].b, reg_sel[n].r, reg_sel[n].c>> \notin gt_boxes.ign

\* An ignored location labelled 0 in a step that mined negatives.
C4_Witness ==
    /\ Mined
    /\ Count(neg_mask) >= 1
    /\ \E p \in Flat(imgs) : ignore[p[1]][p[2]] /\ target_cls[p[1]][p[2]] = 0

\* C5: the mined negative mask is true exactly at the sampled flat indices, all
\* of them original negatives, as many as were asked for, and pos_mask is what
\* it was computed to be.
C5_MiningRebuild ==
    Mined =>
        /\ Where(neg_mask) = ss
        /\ ss \subseteq Where(neg_orig)
        /\ Count(neg_mask) = NegTarget(Count(neg_orig), Count(pos_mask))
        /\ pos_mask = PosMask(target_cls, ignore)

\* The sample leaves original negatives out, in a batch of several examples.
C5_Witness ==
    /\ Mined
    /\ imgs.bs > 1
    /\ ss # {}
    /\ ss # Where(neg_orig)
    /\ \E f \in ss : f >= RowLen(neg_mask)

\* C6: forward applies head i to feature map i and returns the outputs in head
\* order; after the concatenation every flat location holds the logits, the
\* targets and the ignore flag of one head and one grid location.
C6_HeadOrderAligned ==
    /\ result = "forward_returned" =>
            \A i \in 1 .. Len(fwd.cls) : \A b \in Batch(imgs), r \in Rows(imgs), c \in Cols(imgs) :
                /\ fwd.cls[i][b][r][c] = [branch |-> "cls", head |-> i, level |-> i, b |-> b, r |-> r, c |-> c]
                /\ fwd.reg[i][b][r][c] = [branch |-> "reg", head |-> i, level |-> i, b |-> b, r |-> r, c |-> c]
    /\ Mined =>
            \A p \in Flat(imgs) :
                LET b == p[1]
                    k == p[2]
                    cells == imgs.fh * imgs.fw
                    t == cls_logits[b][k]
                    loc == <<t.head, t.b, t.r, t.c>>
                IN  /\ t.branch = "cls" /\ t.b = b /\ t.level = t.head
                    /\ t.head = ((k - 1) \div cells) + 1
                    /\ t.r * imgs.fw + t.c = (k - 1) % cells
                    /\ reg_logits[b][k] = [t EXCEPT !.branch = "reg"]
                    /\ target_regs[b][k] = loc
                    /\ target_cls[b][k] = (IF loc \in gt_boxes.pos \cup gt_boxes.ign1 THEN 1 ELSE 0)
                    /\ ignore[b][k] = (loc \in gt_boxes.ign)

\* A step over a grid of several rows and columns whose only positive location
\* is row 1, column 0 of the second head.
C6_Witness ==
    /\ Mined
    /\ imgs.fh > 1 /\ imgs.fw > 1
    /\ gt_boxes.pos = {<<2, 0, 1, 0>>}

\* C7: training_step returns only the sum of two losses that are not NaN, and a
\* NaN loss makes it raise.
C7_NoNaNReturned ==
    /\ Mined => ((isnan(cls_loss) \/ isnan(reg_loss)) => result = "AssertionError")
    /\ result = "returned" =>
            /\ ~isnan(cls_loss) /\ ~isnan(reg_loss)
            /\ loss = Add(cls_loss, reg_loss)
            /\ ~isnan(loss)

\* A step whose regression loss is NaN.
C7_Witness == result = "AssertionError" /\ isnan(reg_loss)

\* C10: forward returns one classification and one regression output per head,
\* and no call fails for want of a feature map or of an output.
C10_OneOutputPerHead ==
    /\ result # "IndexError"
    /\ result = "forward_returned" => (Len(fwd.cls) = heads /\ Len(fwd.reg) = heads)

\* ==================================================== BaseDataset claims
\* C8: whatever the transforms of the calls so far did to the dicts they were
\* handed, the dataset holds the annotations it was constructed with, and a call
\* whose transform changes nothing returns a copy of the original annotation.
C8_StoredTargetsUnchanged ==
    /\ Stored = loaded
    /\ (data_result = "returned" /\ last_call.tr = "identity") =>
            /\ heap_lists[heap_dicts[item].boxes] = loaded[last_call.idx + 1]
            /\ item \notin {targets[i] : i \in 1 .. Len(targets)}
            /\ heap_dicts[item].boxes \notin {heap_dicts[targets[i]].boxes : i \in 1 .. Len(targets)}

\* A call on an index after a call on the same index whose transform mutated
\* the dict it was handed.
C8_Witness ==
    /\ data_result = "returned"
    /\ last_call.tr = "identity"
    /\ last_call.idx \in mutated
    /\ loaded[last_call.idx + 1] # <<>>

\* ==================================================== cache path claims
\* C9: when a call returns, the path it returns exists; a path that was absent is
\* now a directory under directories, nothing else having changed; a path that
\* existed left the file system as it was; and the same call again returns the
\* same path and changes nothing.
C9_ReturnedPathExists ==
    cache_last.outcome = "returned" =>
        LET p == cache_last.path
        IN  /\ p = PathOf(cache_last.fn)
            /\ exists(fs, p)
            /\ fs_pre[p] = "absent" =>
                    /\ fs[p] = "dir"
                    /\ \A a \in Ancestors(p) : isdir(fs, a)
            /\ \A q \in Paths \cup {"root"} :
                    fs[q] # fs_pre[q] =>
                        /\ fs_pre[q] = "absent" /\ fs[q] = "dir"
                        /\ q \in Ancestors(p) \cup {p}
            /\ exists(fs_pre, p) => fs = fs_pre
            /\ CallOf(cache_last.fn, fs).outcome = "returned"
            /\ CallOf(cache_last.fn, fs).path = p
            /\ CallOf(cache_last.fn, fs).fs = fs

\* get_model_cache_path returned after creating the models directory and the
\* base cache directory above it.
C9_Witness ==
    /\ cache_last.fn = "get_model_cache_path"
    /\ cache_last.outcome = "returned"
    /\ fs_pre["base"] = "absent" /\ fs_pre["cache"] = "absent"
    /\ fs["models"] = "dir" /\ fs["base"] = "dir"

====
